---- MODULE Spec2Model ----
(***************************************************************************)
(* A model of two parts of gatsby-source-contentful:                       *)
(*   - CascadedContext (cascaded-context.js): a map from path strings to   *)
(*     values, read by longest string prefix;                              *)
(*   - the schema generation (translateFieldType, getLinkFieldType,        *)
(*     generateSchema) with its process-wide set of union names.           *)
(* Strings the code cuts, joins or compares by prefix are sequences of     *)
(* one-character strings; a token the code only ever joins whole (a fixed  *)
(* prefix such as "UnionContentful") is one element of such a sequence.    *)
(***************************************************************************)
EXTENDS Integers, Sequences, FiniteSets, TLC

VARIABLES
  cascadeMap,     \* CascadedContext.cascadeMap: path string -> value
  lastSet,        \* history: node -> the value most recently set on it
  ctxOp,          \* the last CascadedContext call and how it ended
  unionsNameSet,  \* the module-level Set of union names (one per process)
  submitted,      \* history: union name -> times submitted in this process
  run,            \* the last generateSchema run and how it ended
  runs,           \* how many generateSchema runs this process has made
  tf              \* the last direct translateFieldType call

ctxVars == <<cascadeMap, lastSet, ctxOp>>
schemaVars == <<unionsNameSet, submitted, run, runs>>
vars == <<cascadeMap, lastSet, ctxOp, unionsNameSet, submitted, run, runs, tf>>

(***************************************************************************)
(* Bounds of the model.                                                    *)
(***************************************************************************)
MaxDepth == 2      \* longest chain of path nodes, root included
MaxSets == 1       \* CascadedContext.set calls that succeed
MaxRuns == 2       \* generateSchema runs in one process
MaxTypes == 2      \* content types in one batch

(***************************************************************************)
(* CascadedContext                                                         *)
(***************************************************************************)

\* The key of a node that has none (node.key === undefined).
UndefinedKey == <<"\\undefined">>

\* Keys of path nodes: the list indices 1 and 10, and a missing key.
Keys == { <<"1">>, <<"1", "0">>, UndefinedKey }

\* The values a caller sets.
Values == {"v1", "v2"}

\* this.defaultValue, which the class never assigns: undefined.
defaultValue == "undefined"

\* A path is <<>> (undefined / null) or <<node>>, node = [key, prev].
RECURSIVE PathsOfDepth(_)
PathsOfDepth(d) ==
  IF d = 0 THEN { <<>> }
  ELSE LET shorter == PathsOfDepth(d - 1)
       IN shorter \cup { <<[key |-> k, prev |-> p]>> : k \in Keys, p \in shorter }

Paths == PathsOfDepth(MaxDepth)

\* String(key) and `${key}`: undefined is rendered as the text "undefined".
String(key) ==
  IF key = UndefinedKey THEN <<"u", "n", "d", "e", "f", "i", "n", "e", "d">>
  ELSE key

\* A variant of getPath that raises nothing when the path is undefined.
RECURSIVE getPath_NoThrow(_, _)
getPath_NoThrow(path, currentPath) ==
  IF path = <<>> THEN [ok |-> TRUE, path |-> String(UndefinedKey)]
  ELSE LET node == path[1]
           newPath == IF currentPath # <<>>
                      THEN String(node.key) \o <<":">> \o currentPath
                      ELSE String(node.key)
       IN IF node.prev = <<>> THEN [ok |-> TRUE, path |-> newPath]
          ELSE getPath_NoThrow(node.prev, newPath)

\* getPath(path, currentPath): ok = FALSE is the thrown Error.
RECURSIVE getPath(_, _)
getPath(path, currentPath) ==
  IF path = <<>> THEN [ok |-> FALSE, path |-> <<>>]
  ELSE LET node == path[1]
           newPath == IF currentPath # <<>>
                      THEN String(node.key) \o <<":">> \o currentPath
                      ELSE String(node.key)
       IN IF node.prev = <<>> THEN [ok |-> TRUE, path |-> newPath]
          ELSE getPath(node.prev, newPath)

\* target.startsWith(prefix)
startsWith(target, prefix) ==
  /\ Len(prefix) <= Len(target)
  /\ SubSeq(target, 1, Len(prefix)) = prefix

\* findLongestPrefix(target, prefixes); <<>> is the undefined `match`.
\* The loop keeps a strictly longer match only, so the order in which the
\* prefixes are visited does not matter and an empty prefix never matches.
findLongestPrefix(target, prefixes) ==
  LET matching == { p \in prefixes : startsWith(target, p) /\ Len(p) > 0 }
  IN IF matching = {} THEN <<>>
     ELSE CHOOSE p \in matching : \A q \in matching : Len(q) <= Len(p)

\* What get(info) returns once getPath has given `path`.
getValue(map, path) ==
  LET lastCascade == findLongestPrefix(path, DOMAIN map)
  IN IF lastCascade # <<>> THEN map[lastCascade] ELSE defaultValue

\* map.set(k, v)
MapSet(map, k, v) ==
  [x \in (DOMAIN map) \cup {k} |-> IF x = k THEN v ELSE map[x]]

EmptyMap == [x \in {} |-> "undefined"]

NoOp == [op |-> "none", path |-> <<>>, threw |-> FALSE, result |-> "undefined"]

\* getPath(info.path), for every path a caller may hand in.
pathOf == [p \in Paths |-> getPath(p, <<>>)]

\* set(info, value)
CtxSet ==
  \E p \in Paths, v \in Values :
    LET r == pathOf[p]
    IN IF ~r.ok
       THEN /\ ctxOp' = [op |-> "set", path |-> p, threw |-> TRUE,
                         result |-> "undefined"]
            /\ UNCHANGED <<cascadeMap, lastSet>>
       ELSE /\ Cardinality(DOMAIN lastSet) < MaxSets \/ p \in DOMAIN lastSet
            /\ cascadeMap' = MapSet(cascadeMap, r.path, v)
            /\ lastSet' = MapSet(lastSet, p, v)
            /\ ctxOp' = [op |-> "set", path |-> p, threw |-> FALSE,
                         result |-> "undefined"]

\* get(info)
CtxGet ==
  \E p \in Paths :
    LET r == pathOf[p]
    IN /\ ctxOp' = IF ~r.ok
                   THEN [op |-> "get", path |-> p, threw |-> TRUE,
                         result |-> "undefined"]
                   ELSE [op |-> "get", path |-> p, threw |-> FALSE,
                         result |-> getValue(cascadeMap, r.path)]
       /\ UNCHANGED <<cascadeMap, lastSet>>

\* has(value)
CtxHas ==
  \E v \in Values :
    /\ ctxOp' = [op |-> "has", path |-> <<>>, threw |-> FALSE,
                 result |-> IF \E k \in DOMAIN cascadeMap : cascadeMap[k] = v
                            THEN "true" ELSE "false"]
    /\ UNCHANGED <<cascadeMap, lastSet>>


(***************************************************************************)
(* Schema generation: data                                                 *)
(***************************************************************************)

\* A content type name or id is a sequence of characters.
Upper(c) == CASE c = "a" -> "A" [] c = "b" -> "B" [] c = "c" -> "C"
              [] c = "d" -> "D" [] OTHER -> c

\* upperFirst(camelCase(name)) on the names of the model: the first
\* character is put in upper case.
upperFirst(name) == IF name = <<>> THEN <<>> ELSE <<Upper(name[1])>> \o Tail(name)

\* The default typePrefix argument of makeTypeName.
DefaultTypePrefix == <<"ContentfulContentType">>

\* makeTypeName(type, typePrefix) of ./normalize
makeTypeName(type, typePrefix) == typePrefix \o upperFirst(type)

\* A validation record: kind "other" has no linkContentType, "name" has a
\* single content type name, "list" has an array of them.
OtherValidation == [kind |-> "other", names |-> <<>>]
NameValidation(n) == [kind |-> "name", names |-> <<n>>]
ListValidation(ns) == [kind |-> "list", names |-> ns]

\* !!linkContentType: undefined and "" are falsy, any array is truthy.
hasLinkContentType(v) ==
  \/ v.kind = "list"
  \/ v.kind = "name" /\ v.names[1] # <<>>

\* A field definition. items is <<>> (none) or <<definition>>; validations
\* is a sequence (<<>> also stands for a missing validations property, which
\* the code treats alike); a missing id is the text "undefined".
FieldDef(id, type, required, linkType, validations, items) ==
  [id |-> id, type |-> type, required |-> required, disabled |-> FALSE,
   omitted |-> FALSE, linkType |-> linkType, validations |-> validations,
   items |-> items]

Disabled(f) == [f EXCEPT !.disabled = TRUE]
Omitted(f) == [f EXCEPT !.omitted = TRUE]

\* A type descriptor {type, extensions}; link is <<>> or <<{by, from}>>.
Descriptor(type, link, dateformat) ==
  [type |-> type, extensions |-> [link |-> link, dateformat |-> dateformat]]

\* { by: `id`, from: `${field.id}___NODE` }
LinkExtension(field) == <<[by |-> "id", from |-> <<field.id, "___NODE">>]>>

\* The kinds ContentfulDataTypes has an entry for.
PrimitiveKinds == {"Symbol", "Text", "Integer", "Number", "Date", "Object",
                   "Boolean", "Location", "RichText"}

\* ContentfulDataTypes.get(kind)(field), for a kind of the table.
ContentfulDataTypes(kind, field) ==
  CASE kind = "Symbol"   -> Descriptor(<<"String">>, <<>>, FALSE)
    [] kind = "Text"     -> Descriptor(<<"ContentfulNodeTypeText">>,
                                       LinkExtension(field), FALSE)
    [] kind = "Integer"  -> Descriptor(<<"Int">>, <<>>, FALSE)
    [] kind = "Number"   -> Descriptor(<<"Float">>, <<>>, FALSE)
    [] kind = "Date"     -> Descriptor(<<"Date">>, <<>>, TRUE)
    [] kind = "Object"   -> Descriptor(<<"JSON">>, <<>>, FALSE)
    [] kind = "Boolean"  -> Descriptor(<<"Boolean">>, <<>>, FALSE)
    [] kind = "Location" -> Descriptor(<<"ContentfulNodeTypeLocation">>, <<>>, FALSE)
    [] kind = "RichText" -> Descriptor(<<"ContentfulNodeTypeRichText">>, <<>>, FALSE)

\* One createTypes submission.
NoFields == [x \in {} |-> Descriptor(<<>>, <<>>, FALSE)]
Submission(kind, name, types, fields) ==
  [kind |-> kind, name |-> name, types |-> types, fields |-> fields]

\* schema.buildUnionType({name, types})
buildUnionType(name, types) == Submission("union", name, types, NoFields)

\* The effects of a translation: the process-wide set of names, how often
\* each union name was submitted in this process, and this run's createTypes
\* submissions in order.
Env(names, declared, created) ==
  [names |-> names, declared |-> declared, created |-> created]

CountUp(declared, name) ==
  [x \in (DOMAIN declared) \cup {name} |->
     IF x = name THEN (IF name \in DOMAIN declared THEN declared[name] ELSE 0) + 1
     ELSE declared[x]]

\* createTypes(submission)
createTypes(env, submission) ==
  [env EXCEPT !.created = Append(env.created, submission),
              !.declared = IF submission.kind = "union"
                           THEN CountUp(env.declared, submission.name)
                           ELSE env.declared]

\* validations.find(({ linkContentType }) => !!linkContentType): <<>> or <<v>>
findLinkContentType(validations) ==
  LET hits == { i \in 1..Len(validations) : hasLinkContentType(validations[i]) }
  IN IF hits = {} THEN <<>>
     ELSE <<validations[CHOOSE i \in hits : \A j \in hits : i <= j]>>

\* contentTypes.map(f)
RECURSIVE MapNames(_, _)
MapNames(names, prefix) ==
  IF names = <<>> THEN <<>>
  ELSE <<makeTypeName(Head(names), prefix)>> \o MapNames(Tail(names), prefix)

\* [...parts].join(``)
RECURSIVE Join(_)
Join(parts) == IF parts = <<>> THEN <<>> ELSE Head(parts) \o Join(Tail(parts))

\* field?.items?.validations: the validations read by getLinkFieldType.
validationsOf(field) ==
  IF field.items = <<>> THEN <<>> ELSE field.items[1].validations

\* A variant of getLinkFieldType that submits the union without asking
\* unionsNameSet whether the name is already registered.
getLinkFieldType_NoDedupe(linkType, field, env) ==
  LET found == findLinkContentType(validationsOf(field))
  IN IF found = <<>>
     THEN [value |-> Descriptor(<<"Contentful", linkType>>,
                                LinkExtension(field), FALSE),
           env |-> env]
     ELSE IF Len(found[1].names) = 1
     THEN [value |-> Descriptor(makeTypeName(found[1].names[1], DefaultTypePrefix),
                                LinkExtension(field), FALSE),
           env |-> env]
     ELSE [value |-> Descriptor(<<"UnionContentful">>
                                  \o Join(MapNames(found[1].names, <<>>)),
                                LinkExtension(field), FALSE),
           env |-> createTypes(
                     [env EXCEPT !.names = env.names \cup
                        {<<"UnionContentful">> \o Join(MapNames(found[1].names, <<>>))}],
                     buildUnionType(
                       <<"UnionContentful">> \o Join(MapNames(found[1].names, <<>>)),
                       MapNames(found[1].names, DefaultTypePrefix)))]

\* getLinkFieldType(linkType, field, schema, createTypes)
getLinkFieldType(linkType, field, env) ==
  LET validations == validationsOf(field)
      found == findLinkContentType(validations)
      generic == [value |-> Descriptor(<<"Contentful", linkType>>,
                                       LinkExtension(field), FALSE),
                  env |-> env]
  IN IF found = <<>> THEN generic
     ELSE LET contentTypes == found[1].names
              translatedTypeNames == MapNames(contentTypes, DefaultTypePrefix)
              shortTypeNames == MapNames(contentTypes, <<>>)
              unionName == <<"UnionContentful">> \o Join(shortTypeNames)
          IN IF Len(translatedTypeNames) = 1
             THEN [value |-> Descriptor(translatedTypeNames[1],
                                        LinkExtension(field), FALSE),
                   env |-> env]
             ELSE [value |-> Descriptor(unionName, LinkExtension(field), FALSE),
                   env |-> IF unionName \notin env.names
                           THEN createTypes(
                                  [env EXCEPT !.names = env.names \cup {unionName}],
                                  buildUnionType(unionName, translatedTypeNames))
                           ELSE env]

\* The TypeError of calling ContentfulDataTypes.get(kind), undefined.
NotAFunction == <<"ContentfulDataTypes.get(...) is not a function">>
\* The TypeError of reading field.items.type with no items.
NoItems == <<"Cannot read property 'type' of undefined">>

Threw(message, env) ==
  [threw |-> TRUE, message |-> message,
   value |-> Descriptor(<<>>, <<>>, FALSE), env |-> env]
Returned(value, env) ==
  [threw |-> FALSE, message |-> <<>>, value |-> value, env |-> env]

\* if (field.required) fieldType.type = `${fieldType.type}!`
markRequired(field, r) ==
  IF r.threw \/ ~field.required THEN r
  ELSE [r EXCEPT !.value.type = r.value.type \o <<"!">>]

\* A variant of wrapArray that builds { type: `[${fieldData.type}]` } without
\* spreading fieldData, so that the extensions are lost.
wrapArray_DropsExtensions(fieldData) ==
  IF fieldData.threw THEN fieldData
  ELSE [fieldData EXCEPT
          !.value = Descriptor(<<"[">> \o fieldData.value.type \o <<"]">>,
                               <<>>, FALSE)]

\* fieldType = { ...fieldData, type: `[${fieldData.type}]` }
wrapArray(fieldData) ==
  IF fieldData.threw THEN fieldData
  ELSE [fieldData EXCEPT !.value.type = <<"[">> \o fieldData.value.type \o <<"]">>]

\* The descriptor getLinkFieldType returns; it raises nothing.
linkFieldType(l) == Returned(l.value, l.env)

\* translateFieldType(field, schema, createTypes)
RECURSIVE translateFieldType(_, _)
translateFieldType(field, env) ==
  markRequired(field,
    IF field.type = "Array"
    THEN IF field.items = <<>> THEN Threw(NoItems, env)
         ELSE wrapArray(
                IF field.items[1].type = "Link"
                THEN linkFieldType(
                       getLinkFieldType(field.items[1].linkType, field, env))
                ELSE translateFieldType(field.items[1], env))
    ELSE IF field.type = "Link"
    THEN linkFieldType(getLinkFieldType(field.linkType, field, env))
    ELSE IF field.type \in PrimitiveKinds
    THEN Returned(ContentfulDataTypes(field.type, field), env)
    ELSE Threw(NotAFunction, env))

(***************************************************************************)
(* Schema generation: generateSchema                                       *)
(***************************************************************************)

\* The names of the types generateSchema submits before the content types.
FixedTypeNames ==
  << <<"ContentfulInternalReference">>, <<"ContentfulContentType">>,
     <<"ContentfulInternalSys">>, <<"ContentfulEntry">>, <<"ContentfulAsset">>,
     <<"ContentfulNodeTypeRichTextAssets">>, <<"ContentfulNodeTypeRichTextEntries">>,
     <<"ContentfulNodeTypeRichTextLinks">>, <<"ContentfulNodeTypeRichText">>,
     <<"ContentfulNodeTypeLocation">>, <<"ContentfulNodeTypeText">> >>

FixedTypes ==
  [i \in 1..Len(FixedTypeNames) |->
     Submission("fixed", FixedTypeNames[i], <<>>, NoFields)]

\* A variant of skipped that forgets the omitted fields.
skipped_DisabledOnly(field) == field.disabled

\* if (field.disabled || field.omitted) return
skipped(field) == field.disabled \/ field.omitted

\* { id: { type: `ID!` }, sys: { type: `ContentfulInternalSys` }, ...fields }
objectFields(fields) ==
  [x \in {"id", "sys"} \cup DOMAIN fields |->
     IF x \in DOMAIN fields THEN fields[x]
     ELSE IF x = "id" THEN Descriptor(<<"ID", "!">>, <<>>, FALSE)
     ELSE Descriptor(<<"ContentfulInternalSys">>, <<>>, FALSE)]

\* schema.buildObjectType({name, fields, interfaces, extensions})
buildObjectType(name, fields) ==
  Submission("object", name,
             <<"ContentfulInternalReference", "ContentfulEntry", "Node">>,
             objectFields(fields))

\* contentTypeItem.fields.forEach(...): the `fields` object it fills. The
\* forEach ends at the first field whose translation throws.
RECURSIVE translateFields(_, _, _)
RECURSIVE assignField(_, _, _)
assignField(fieldDefs, fields, r) ==
  IF r.threw
  THEN [threw |-> TRUE, message |-> r.message, fields |-> fields, env |-> r.env]
  ELSE translateFields(Tail(fieldDefs),
                       MapSet(fields, Head(fieldDefs).id, r.value), r.env)

translateFields(fieldDefs, fields, env) ==
  IF fieldDefs = <<>>
  THEN [threw |-> FALSE, message |-> <<>>, fields |-> fields, env |-> env]
  ELSE IF skipped(Head(fieldDefs))
  THEN translateFields(Tail(fieldDefs), fields, env)
  ELSE assignField(fieldDefs, fields, translateFieldType(Head(fieldDefs), env))

\* A variant of displayName without the fall back to sys.id.
displayName_NameOnly(contentTypeItem) == contentTypeItem.name

\* contentTypeItem.name || contentTypeItem.sys.id
displayName(contentTypeItem) ==
  IF contentTypeItem.name # <<>> THEN contentTypeItem.name
  ELSE contentTypeItem.sys.id

\* err.message = `Unable to create schema for Contentful Content Type ...`
annotate(contentTypeItem, message) ==
  <<"Unable to create schema for Contentful Content Type ">>
    \o displayName(contentTypeItem) \o <<":\n">> \o message

\* pluginConfig.get(`useNameForId`) ? contentTypeItem.name : contentTypeItem.sys.id
typeOf(contentTypeItem, useNameForId) ==
  IF useNameForId THEN contentTypeItem.name ELSE contentTypeItem.sys.id

\* The loop of generateSchema over contentTypeItems. fieldMaps collects the
\* `fields` object of every content type whose object type was submitted.
RECURSIVE contentTypesLoop(_, _, _, _)
RECURSIVE submitContentType(_, _, _, _)
submitContentType(contentTypeItems, useNameForId, fieldMaps, t) ==
  IF t.threw
  THEN [threw |-> TRUE,
        message |-> annotate(Head(contentTypeItems), t.message),
        env |-> t.env, fieldMaps |-> fieldMaps]
  ELSE contentTypesLoop(
         Tail(contentTypeItems), useNameForId,
         createTypes(t.env,
           buildObjectType(
             makeTypeName(typeOf(Head(contentTypeItems), useNameForId),
                          DefaultTypePrefix),
             t.fields)),
         Append(fieldMaps, t.fields))

contentTypesLoop(contentTypeItems, useNameForId, env, fieldMaps) ==
  IF contentTypeItems = <<>>
  THEN [threw |-> FALSE, message |-> <<>>, env |-> env, fieldMaps |-> fieldMaps]
  ELSE submitContentType(contentTypeItems, useNameForId, fieldMaps,
         translateFields(Head(contentTypeItems).fields, NoFields, env))

\* generateSchema({createTypes, schema, pluginConfig, contentTypeItems}) in a
\* process whose union names are `names`, submitted `declared` times so far.
generateSchema(contentTypeItems, useNameForId, names, declared) ==
  contentTypesLoop(contentTypeItems, useNameForId,
                   Env(names, declared, FixedTypes), <<>>)


(***************************************************************************)
(* Schema generation: the content models the runs are given                *)
(***************************************************************************)

\* Content type ids that linkContentType validations name.
CtA == <<"a">>
CtB == <<"b">>
CtAB == <<"a", "B">>

\* The items of an array of links: no id of their own.
LinkItems(required, linkType, validations) ==
  FieldDef("undefined", "Link", required, linkType, validations, <<>>)

ArrayOfLinks(id, validations) ==
  FieldDef(id, "Array", FALSE, "undefined", <<>>,
           <<LinkItems(FALSE, "Entry", validations)>>)

Primitive(id, kind, required) ==
  FieldDef(id, kind, required, "undefined", <<>>, <<>>)

ContentType(id, name, fields) ==
  [sys |-> [id |-> id], name |-> name, fields |-> fields]

\* A required Symbol, an optional Integer and a Link with one validated
\* target on the field itself.
CtArticle ==
  ContentType(CtA, <<"a", "r", "t">>,
    << Primitive("title", "Symbol", TRUE),
       Primitive("count", "Integer", FALSE),
       FieldDef("author", "Link", FALSE, "Entry", <<ListValidation(<<CtB>>)>>, <<>>) >>)

\* A union of two, a disabled field that would need another union, and an
\* omitted field of an unsupported kind.
CtPage ==
  ContentType(CtB, <<"p">>,
    << ArrayOfLinks("refs", <<OtherValidation, ListValidation(<<CtA, CtB>>)>>),
       Disabled(ArrayOfLinks("old", <<ListValidation(<<CtA, CtAB>>)>>)),
       Omitted(Primitive("legacy", "Unsupported", FALSE)) >>)

\* No name; the same two members in the other order, then a field of an
\* unsupported kind.
CtBroken ==
  ContentType(<<"c">>, <<>>,
    << ArrayOfLinks("refs", <<ListValidation(<<CtB, CtA>>)>>),
       Primitive("bad", "Unsupported", FALSE) >>)

\* A name, and a field of an unsupported kind.
CtDoc ==
  ContentType(<<"d">>, <<"d", "o", "c">>,
    << Primitive("title", "Symbol", FALSE),
       Primitive("bad", "Unsupported", TRUE) >>)

\* Content fields called id and sys, and a link whose validation names no
\* content type at all.
CtMeta ==
  ContentType(CtAB, <<"m">>,
    << Primitive("id", "Symbol", FALSE),
       Primitive("sys", "Object", TRUE),
       ArrayOfLinks("none", <<ListValidation(<<>>)>>) >>)

\* The same two members twice, a single name, and an omitted field that
\* would need a union of its own.
CtGallery ==
  ContentType(<<"g">>, <<"g">>,
    << ArrayOfLinks("items", <<ListValidation(<<CtA, CtB>>)>>),
       ArrayOfLinks("one", <<NameValidation(CtA)>>),
       ArrayOfLinks("more", <<ListValidation(<<CtA, CtB>>), NameValidation(CtA)>>),
       Omitted(ArrayOfLinks("gone", <<ListValidation(<<CtB, CtAB>>)>>)) >>)

ContentTypeItems == {CtArticle, CtPage, CtBroken, CtDoc, CtMeta, CtGallery}

\* The most fields one of these content types has.
MaxFields ==
  CHOOSE n \in 0..8 : /\ \A c \in ContentTypeItems : Len(c.fields) <= n
                      /\ \E c \in ContentTypeItems : Len(c.fields) = n

\* Sequences of 1..n distinct content types.
RECURSIVE BatchesOfLen(_)
BatchesOfLen(n) ==
  IF n = 0 THEN { <<>> }
  ELSE { Append(b, c) : b \in BatchesOfLen(n - 1), c \in ContentTypeItems }

Distinct(b) == \A i, j \in 1..Len(b) : i # j => b[i] # b[j]

Batches ==
  { b \in UNION { BatchesOfLen(n) : n \in 1..MaxTypes } : Distinct(b) }

NoRun == [contentTypeItems |-> <<>>, useNameForId |-> FALSE, threw |-> FALSE,
          message |-> <<>>, created |-> <<>>, fieldMaps |-> <<>>]

NoCount == [x \in {} |-> 0]

\* What a run leaves behind: the process-wide names, and its record.
EndRun(batch, useNameForId, r) ==
  /\ unionsNameSet' = r.env.names
  /\ submitted' = r.env.declared
  /\ run' = [contentTypeItems |-> batch, useNameForId |-> useNameForId,
             threw |-> r.threw, message |-> r.message,
             created |-> r.env.created, fieldMaps |-> r.fieldMaps]

\* One run of generateSchema, from its first createTypes to its return or throw.
GenerateSchema ==
  \E batch \in Batches, useNameForId \in BOOLEAN :
    /\ runs < MaxRuns
    /\ EndRun(batch, useNameForId,
              generateSchema(batch, useNameForId, unionsNameSet, submitted))
    /\ runs' = runs + 1
    /\ UNCHANGED <<cascadeMap, lastSet, ctxOp, tf>>

(***************************************************************************)
(* translateFieldType called on one field                                  *)
(***************************************************************************)

ValidationLists ==
  { <<>>, <<OtherValidation>>, <<NameValidation(CtA)>>,
    <<ListValidation(<<CtA>>)>>, <<ListValidation(<<>>)>>,
    <<OtherValidation, ListValidation(<<CtA, CtB>>)>>,
    <<ListValidation(<<CtB, CtA>>), NameValidation(CtA)>> }

LinkTypes == {"Entry", "Asset"}

ItemKinds == {"Symbol", "Integer", "Text", "Unsupported"}

ItemDefs ==
  { Primitive("undefined", k, r) : k \in ItemKinds, r \in BOOLEAN }
    \cup { LinkItems(r, l, v) : r \in BOOLEAN, l \in LinkTypes, v \in ValidationLists }

TranslateInputs ==
  { Primitive("f", k, r) : k \in PrimitiveKinds \cup {"Unsupported"}, r \in BOOLEAN }
    \cup { FieldDef("f", "Link", r, l, v, <<>>) :
             r \in BOOLEAN, l \in LinkTypes, v \in ValidationLists }
    \cup { FieldDef("f", "Array", r, "undefined", <<>>, <<x>>) :
             r \in BOOLEAN, x \in ItemDefs }

\* Union names registered before the call.
NamesBefore == { {}, {<<"UnionContentful", "A", "B">>} }

NoCall == [called |-> FALSE, field |-> Primitive("f", "Symbol", FALSE),
           names |-> {}, r |-> Returned(Descriptor(<<>>, <<>>, FALSE),
                                        Env({}, NoCount, <<>>))]

\* translateFieldType(field, schema, createTypes) on its own.
TranslateField ==
  \E field \in TranslateInputs, names \in NamesBefore :
    /\ tf' = [called |-> TRUE, field |-> field, names |-> names,
              r |-> translateFieldType(field, Env(names, NoCount, <<>>))]
    /\ UNCHANGED <<cascadeMap, lastSet, ctxOp, unionsNameSet, submitted, run, runs>>

(***************************************************************************)
(* Specifications                                                          *)
(***************************************************************************)

Init ==
  /\ cascadeMap = EmptyMap
  /\ lastSet = EmptyMap
  /\ ctxOp = NoOp
  /\ unionsNameSet = {}
  /\ submitted = NoCount
  /\ run = NoRun
  /\ runs = 0
  /\ tf = NoCall

CascadedContextSet == CtxSet /\ UNCHANGED <<unionsNameSet, submitted, run, runs, tf>>
CascadedContextGet == CtxGet /\ UNCHANGED <<unionsNameSet, submitted, run, runs, tf>>
CascadedContextHas == CtxHas /\ UNCHANGED <<unionsNameSet, submitted, run, runs, tf>>

NextContext == CascadedContextSet \/ CascadedContextGet \/ CascadedContextHas
NextSchema == GenerateSchema
NextTranslate == TranslateField

Next == NextContext \/ NextSchema \/ NextTranslate

\* The whole program, and each of its three parts, which share no state.
Spec == Init /\ [][Next]_vars
SpecContext == Init /\ [][NextContext]_vars
SpecSchema == Init /\ [][NextSchema]_vars
SpecTranslate == Init /\ [][NextTranslate]_vars


(***************************************************************************)
(* Properties of CascadedContext                                           *)
(***************************************************************************)

\* Whether some node of the chain has no key.
RECURSIVE HasUndefinedKey(_)
HasUndefinedKey(path) ==
  /\ path # <<>>
  /\ (path[1].key = UndefinedKey \/ HasUndefinedKey(path[1].prev))

\* The value most recently set on the nearest node of the chain, node first.
RECURSIVE NearestSet(_)
NearestSet(path) ==
  IF path = <<>> THEN defaultValue
  ELSE IF path \in DOMAIN lastSet THEN lastSet[path]
  ELSE NearestSet(path[1].prev)

\* C1: get(node) returns the value most recently set on the nearest node of
\* the chain from node to the root that has been set, the default when none
\* has, and never a value set on a node outside that chain.
C1_GetReturnsNearestSetOnChain ==
  (ctxOp.op = "get" /\ ~ctxOp.threw /\ ~HasUndefinedKey(ctxOp.path))
    => ctxOp.result = NearestSet(ctxOp.path)

UnionNameOf(members) == <<"UnionContentful">> \o Join(MapNames(members, <<>>))

ExpectedLinkType(linkType, v) ==
  LET found == findLinkContentType(v)
  IN IF found = <<>> THEN <<"Contentful", linkType>>
     ELSE IF Len(found[1].names) = 1
     THEN makeTypeName(found[1].names[1], DefaultTypePrefix)
     ELSE UnionNameOf(found[1].names)

\* The validations of a link field: on the field for a plain Link, on the
\* items for an array of links.
LinkValidations(field) ==
  IF field.type = "Link" THEN field.validations ELSE field.items[1].validations

LinkTypeOf(field) ==
  IF field.type = "Link" THEN field.linkType ELSE field.items[1].linkType

IsLinkField(field) ==
  \/ field.type = "Link"
  \/ field.type = "Array" /\ field.items # <<>> /\ field.items[1].type = "Link"

NamesNoContentType(v) ==
  LET found == findLinkContentType(v)
  IN found # <<>> /\ found[1].names = <<>>

Wrapped(type, isArray, required) ==
  (IF isArray THEN <<"[">> \o type \o <<"]">> ELSE type)
    \o (IF required THEN <<"!">> ELSE <<>>)

\* C2: a Link field, plain or the items of an array, is typed by how many
\* content types its linkContentType validation names: none gives
\* Contentful<linkType>, one gives that content type's name and no union,
\* more than one gives the union name.
C2_LinkTypedByValidationCount ==
  (tf.called /\ IsLinkField(tf.field) /\ ~NamesNoContentType(LinkValidations(tf.field)))
    => /\ ~tf.r.threw
       /\ tf.r.value.type =
            Wrapped(ExpectedLinkType(LinkTypeOf(tf.field), LinkValidations(tf.field)),
                    tf.field.type = "Array", tf.field.required)
       /\ (findLinkContentType(LinkValidations(tf.field)) # <<>>
             /\ Len(findLinkContentType(LinkValidations(tf.field))[1].names) = 1)
            => tf.r.env.created = <<>>

\* translateFieldType(X) for the items X of the array field last translated.
ItemsAlone == translateFieldType(tf.field.items[1], Env(tf.names, NoCount, <<>>))

ArrayWrapsItems ==
  /\ tf.r.threw = ItemsAlone.threw
  /\ ~tf.r.threw =>
       /\ tf.r.value.extensions = ItemsAlone.value.extensions
       /\ tf.r.value.type = Wrapped(ItemsAlone.value.type, TRUE, tf.field.required)

\* C4, as claimed: whatever the items X of an array field, its translation
\* has the extensions of translateFieldType(X) and that type wrapped once
\* in [ ], then one ! iff the array is required.
C4_ArrayWrapsAnyItems ==
  (tf.called /\ tf.field.type = "Array") => ArrayWrapsItems

\* C4, amended: that holds for items of a primitive kind. For items that
\* are a Link the array carries the link extension of its own id, and its
\* type is a link type wrapped once in [ ], with no ! inside for required
\* items, then one ! iff the array is required.
C4_ArrayWrapsPrimitiveItems ==
  (tf.called /\ tf.field.type = "Array") =>
    IF tf.field.items[1].type # "Link" THEN ArrayWrapsItems
    ELSE /\ ~tf.r.threw
         /\ tf.r.value.extensions.link = LinkExtension(tf.field)
         /\ \E t \in { getLinkFieldType(tf.field.items[1].linkType, tf.field,
                                        Env(tf.names, NoCount, <<>>)).value.type } :
              /\ t[Len(t)] # "!"
              /\ tf.r.value.type = Wrapped(t, TRUE, tf.field.required)

\* C4 witness: a required array of required Symbols is [String!]!.
C4_Witness ==
  /\ tf.called /\ tf.field.type = "Array" /\ tf.field.required
  /\ tf.field.items[1].type = "Symbol" /\ tf.field.items[1].required
  /\ tf.r.value.type = <<"[", "String", "!", "]", "!">>


(***************************************************************************)
(* Properties of generateSchema                                            *)
(***************************************************************************)

IsUnion(submission) == submission.kind = "union"
IsObject(submission) == submission.kind = "object"
Range(seq) == { seq[i] : i \in 1..Len(seq) }

\* The union and object types the last run submitted, in order.
UnionsOfRun == SelectSeq(run.created, IsUnion)
ObjectsOfRun == SelectSeq(run.created, IsObject)

Enabled(field) == ~field.disabled /\ ~field.omitted

\* A link field whose validation names no or several content types.
NeedsUnion(field) ==
  /\ IsLinkField(field)
  /\ findLinkContentType(validationsOf(field)) # <<>>
  /\ Len(findLinkContentType(validationsOf(field))[1].names) # 1

MembersOf(field) == findLinkContentType(validationsOf(field))[1].names

\* <<k, i>>: field i of content type k of the last run, translated in a
\* content type whose object type was submitted, and typed by a union.
UnionFieldsOfRun ==
  { ki \in (1..Len(run.fieldMaps)) \X (1..MaxFields) :
      /\ ki[2] <= Len(run.contentTypeItems[ki[1]].fields)
      /\ Enabled(run.contentTypeItems[ki[1]].fields[ki[2]])
      /\ NeedsUnion(run.contentTypeItems[ki[1]].fields[ki[2]]) }

FieldAt(ki) == run.contentTypeItems[ki[1]].fields[ki[2]]
TypeAt(ki) == run.fieldMaps[ki[1]][FieldAt(ki).id].type

\* C3, as claimed: a union for a given set of members is submitted at most
\* once, and fields naming the same set of members, in whatever order, are
\* given the same union name.
C3_UnionPerMemberSet ==
  /\ \A i, j \in 1..Len(UnionsOfRun) :
       i # j => Range(UnionsOfRun[i].types) # Range(UnionsOfRun[j].types)
  /\ \A f, g \in UnionFieldsOfRun :
       Range(MembersOf(FieldAt(f))) = Range(MembersOf(FieldAt(g)))
         => TypeAt(f) = TypeAt(g)

\* C3, amended: a union of a given name, that is of a given list of members
\* in a given order, is submitted at most once in a process, the names
\* registered are the names submitted, and every field naming the same
\* members in the same order is given that one submitted name.
C3_UnionPerMemberList ==
  /\ \A n \in DOMAIN submitted : submitted[n] = 1
  /\ unionsNameSet = DOMAIN submitted
  /\ \A f \in UnionFieldsOfRun :
       /\ TypeAt(f) = Wrapped(UnionNameOf(MembersOf(FieldAt(f))), TRUE, FALSE)
       /\ UnionNameOf(MembersOf(FieldAt(f))) \in DOMAIN submitted

\* C3 witness: a field of a second run is typed by a union that an earlier
\* run submitted and this run did not submit again.
C3_Witness ==
  /\ runs = 2
  /\ \E f \in UnionFieldsOfRun :
       /\ Len(MembersOf(FieldAt(f))) = 2
       /\ UnionNameOf(MembersOf(FieldAt(f))) \in DOMAIN submitted
       /\ \A i \in 1..Len(UnionsOfRun) :
            UnionsOfRun[i].name # UnionNameOf(MembersOf(FieldAt(f)))

\* Whether translating the field raises: an enabled field, or the items of
\* an enabled array, of a kind that is no Link and not in the table.
Raises(field) ==
  /\ ~field.disabled /\ ~field.omitted
  /\ \/ field.type \notin PrimitiveKinds \cup {"Link", "Array"}
     \/ /\ field.type = "Array"
        /\ field.items[1].type \notin PrimitiveKinds \cup {"Link"}

\* The first content type of the batch with a field that raises, 0 if none.
FirstRaising(batch) ==
  LET ks == { k \in 1..Len(batch) :
                \E i \in 1..Len(batch[k].fields) : Raises(batch[k].fields[i]) }
  IN IF ks = {} THEN 0 ELSE CHOOSE k \in ks : \A m \in ks : k <= m

NameOrId(contentTypeItem) ==
  IF contentTypeItem.name = <<>> THEN contentTypeItem.sys.id
  ELSE contentTypeItem.name

\* C5: when a field of the k-th content type raises, generateSchema raises
\* that error with the content type's name, or its sys.id when the name is
\* empty, put before the message, and object types are submitted for the
\* content types before the k-th only.
C5_FailureNamesContentType ==
  (runs > 0 /\ FirstRaising(run.contentTypeItems) > 0) =>
    LET k == FirstRaising(run.contentTypeItems)
    IN /\ run.threw
       /\ run.message =
            <<"Unable to create schema for Contentful Content Type ">>
              \o NameOrId(run.contentTypeItems[k]) \o <<":\n">> \o NotAFunction
       /\ Len(ObjectsOfRun) = k - 1
       /\ \A i \in 1..Len(ObjectsOfRun) :
            ObjectsOfRun[i].name =
              makeTypeName(IF run.useNameForId THEN run.contentTypeItems[i].name
                           ELSE run.contentTypeItems[i].sys.id,
                           DefaultTypePrefix)

\* C5 witness: the second content type of a batch, one without a name, has
\* raised after the first was submitted.
C5_Witness ==
  /\ runs > 0 /\ run.threw
  /\ FirstRaising(run.contentTypeItems) = 2
  /\ run.contentTypeItems[2].name = <<>>
  /\ Len(ObjectsOfRun) = 1

NotWrapper(x) == x \notin {"[", "]", "!"}
BareName(type) == SelectSeq(type, NotWrapper)
IsUnionName(name) == name # <<>> /\ name[1] = "UnionContentful"

\* C7: in every run, each union name that types a field of an object type
\* submitted in the run was submitted in that run before the object type.
C7_UnionSubmittedBeforeUse ==
  \A j \in 1..Len(run.created) :
    IsObject(run.created[j]) =>
      \A x \in DOMAIN run.created[j].fields :
        IsUnionName(BareName(run.created[j].fields[x].type)) =>
          \E i \in 1..(j - 1) :
            /\ IsUnion(run.created[i])
            /\ run.created[i].name = BareName(run.created[j].fields[x].type)

\* The union names the enabled fields of the content types need.
UnionNamesOfType(c) ==
  { UnionNameOf(MembersOf(c.fields[i])) :
      i \in { i \in 1..Len(c.fields) :
                Enabled(c.fields[i]) /\ NeedsUnion(c.fields[i]) } }

EnabledUnionNames(contentTypes) ==
  UNION { UnionNamesOfType(c) : c \in contentTypes }

FieldIds(contentTypeItem, enabled) ==
  { contentTypeItem.fields[i].id :
      i \in { i \in 1..Len(contentTypeItem.fields) :
                Enabled(contentTypeItem.fields[i]) = enabled } }

\* C8: a disabled or omitted field has no entry in the field map of its
\* content type and causes no union to be registered or submitted; every
\* other field has its entry, and the object type submitted carries the
\* field map.
C8_SkippedFieldsLeaveNoTrace ==
  /\ \A k \in 1..Len(run.fieldMaps) :
       /\ DOMAIN run.fieldMaps[k] = FieldIds(run.contentTypeItems[k], TRUE)
       /\ FieldIds(run.contentTypeItems[k], FALSE) \cap DOMAIN run.fieldMaps[k] = {}
       /\ DOMAIN ObjectsOfRun[k].fields = {"id", "sys"} \cup DOMAIN run.fieldMaps[k]
       /\ \A x \in DOMAIN run.fieldMaps[k] :
            ObjectsOfRun[k].fields[x] = run.fieldMaps[k][x]
  /\ Range([i \in 1..Len(UnionsOfRun) |-> UnionsOfRun[i].name])
       \subseteq EnabledUnionNames(Range(run.contentTypeItems))
  /\ unionsNameSet \subseteq EnabledUnionNames(ContentTypeItems)
  /\ (runs > 0 /\ FirstRaising(run.contentTypeItems) = 0) => ~run.threw

\* C8 witness: a content type with a disabled link field that would need a
\* union and an omitted field of an unsupported kind has been submitted.
C8_Witness ==
  /\ runs > 0 /\ ~run.threw
  /\ \E k \in 1..Len(run.fieldMaps) :
       /\ \E i \in 1..Len(run.contentTypeItems[k].fields) :
            /\ run.contentTypeItems[k].fields[i].disabled
            /\ NeedsUnion(run.contentTypeItems[k].fields[i])
       /\ \E i \in 1..Len(run.contentTypeItems[k].fields) :
            /\ run.contentTypeItems[k].fields[i].omitted
            /\ run.contentTypeItems[k].fields[i].type = "Unsupported"

\* C9: every object type submitted for a content type has a field id of
\* type ID! and a field sys of type ContentfulInternalSys.
C9_ObjectHasIdAndSys ==
  \A j \in 1..Len(ObjectsOfRun) :
    /\ ObjectsOfRun[j].fields["id"].type = <<"ID", "!">>
    /\ ObjectsOfRun[j].fields["sys"].type = <<"ContentfulInternalSys">>

\* C10: every union type submitted has at least two member types, and its
\* name is UnionContentful followed by at least two short names.
C10_UnionHasTwoMembers ==
  \A j \in 1..Len(UnionsOfRun) :
    /\ Len(UnionsOfRun[j].types) >= 2
    /\ Len(UnionsOfRun[j].name) >= 3

====
